---- MODULE Spec2Model ----
(***************************************************************************)
(* Verification model of the FutureSelf backend (future-self/backend).     *)
(*                                                                         *)
(*   SpecChat    POST /chat and POST /chat/stream (main.py) with the       *)
(*               Supabase tables they read and write                       *)
(*   SpecDetails extract_personal_details (main.py) on its own             *)
(*   SpecTasks   the Celery tasks of tasks.py, the worker and the polling  *)
(*               endpoints of main.py                                      *)
(*   SpecBias    BiasAnalysisService.analyze_bias_and_toxicity             *)
(*   SpecEmotion EmotionDetectionService.analyze_text_emotion              *)
(*   SpecConcurrent  extract_personal_details called by two server         *)
(*               processes at the same time                                *)
(*   SpecHumanize  humanize_response on its own                            *)
(*                                                                         *)
(* Text is modelled as a sequence of tokens: a user message is a sequence  *)
(* of words, trigger phrases and separators; a model response is a         *)
(* sequence of atoms, each with a length in characters.                    *)
(***************************************************************************)
EXTENDS Integers, Sequences, FiniteSets, TLC

VARIABLES
    users,                  \* Supabase table users: user id -> row or NoRow
    user_personal_details,  \* Supabase table user_personal_details: sequence of rows
    chat_messages,          \* Supabase table chat_messages: sequence of rows
    ollama_url,             \* os.environ.get("OLLAMA_API_URL")
    nreq,                   \* number of HTTP requests handled so far
    resp,                   \* the request handled last and what the client got
    broker,                 \* Celery: messages in the Redis queue
    unacked,                \* Celery: messages delivered but not acknowledged
    worker,                 \* Celery: the worker process
    backend,                \* Celery: result backend, task id -> state and result
    runs,                   \* Celery: task id -> number of finished executions
    submitted,              \* Celery: the tasks submitted so far
    poll,                   \* the last answer of a task endpoint
    services,               \* main.py: which NLP services were loaded at start
    call,                   \* extract_personal_details: the call made last
    bias,                   \* BiasAnalysisService: the call made last
    emotion,                \* EmotionDetectionService: the call made last
    extracting,             \* extract_personal_details: the calls in progress, per process
    humanize                \* humanize_response: the call made last

vars == <<users, user_personal_details, chat_messages, ollama_url, nreq, resp,
          broker, unacked, worker, backend, runs, submitted, poll, services,
          call, bias, emotion, extracting, humanize>>

chatVars == <<users, user_personal_details, chat_messages, ollama_url, nreq, resp>>
taskVars == <<broker, unacked, worker, backend, runs, submitted, poll, services>>

None == "None"

\* the empty dict {}
EmptyDict == [k \in {} |-> None]

(***************************************************************************)
(* Bounds of the model.                                                    *)
(***************************************************************************)
MaxRequests == 2
MaxMsgLen == 3
MaxCalls == 2
MaxTasks == 2
MaxCrashes == 1

Min(a, b) == IF a < b THEN a ELSE b

(***************************************************************************)
(* Text.                                                                   *)
(***************************************************************************)
Users == {"u1", "u2"}

Categories == {"goals", "challenges", "interests", "values", "achievements"}

\* one trigger phrase of each alternation of `patterns`
patterns ==
    [goals |-> {"i want to"}, challenges |-> {"struggling with"},
     interests |-> {"i love"}, values |-> {"i value"},
     achievements |-> {"proud of"}]

Separators == {",", "."}

simple_greetings == {"hi", "hello", "hey", "good morning", "good afternoon",
                     "good evening", "howdy", "greetings"}

\* the tokens user messages are drawn from
Tokens == {"i want to", "i love", "cats", "run", ","}

RECURSIVE SeqsUpTo(_, _)
SeqsUpTo(S, n) ==
    IF n = 0 THEN {<<>>}
    ELSE LET shorter == SeqsUpTo(S, n - 1)
         IN  shorter \cup {Append(s, x) : s \in {t \in shorter : Len(t) = n - 1}, x \in S}

Messages == SeqsUpTo(Tokens, MaxMsgLen) \ {<<>>}

\* messages in which one trigger is followed by the same phrase twice
LongMessages == {<<"i love", "cats", ",", "i love", "cats">>,
                 <<"i want to", "run", ",", "i want to", "run", ",">>}

\* the messages the chat endpoints are driven with
ChatInputs == {<<"hello">>, <<"i love", "cats">>, <<"cats">>}

\* a token of white space
Space == " "

\* str.lower() on a token
LowerToken(token) ==
    CASE token = "Hello" -> "hello"
      [] token = "HI" -> "hi"
      [] OTHER -> token

\* str.strip(): leading and trailing white space removed
RECURSIVE Strip(_)
Strip(text) ==
    IF text # <<>> /\ Head(text) = Space THEN Strip(Tail(text))
    ELSE IF text # <<>> /\ text[Len(text)] = Space
         THEN Strip(SubSeq(text, 1, Len(text) - 1))
    ELSE text

\* user_message.lower().strip()
LowerStrip(user_message) ==
    Strip([i \in 1..Len(user_message) |-> LowerToken(user_message[i])])

\* user_message.lower().strip() == greeting, or starts with greeting + ' ',
\* or ends with ' ' + greeting
IsSimpleGreeting(user_message) ==
    LET user_message_lower == LowerStrip(user_message)
    IN  /\ Len(user_message_lower) > 0
        /\ \/ Len(user_message_lower) = 1 /\ user_message_lower[1] \in simple_greetings
           \/ /\ Len(user_message_lower) > 1
              /\ user_message_lower[1] \in simple_greetings
              /\ user_message_lower[2] \notin Separators
           \/ /\ Len(user_message_lower) > 1
              /\ user_message_lower[Len(user_message_lower)] \in simple_greetings

(***************************************************************************)
(* re.findall(pattern, user_message, re.IGNORECASE) for one category: each *)
(* match is a trigger, white space, then the shortest non-empty text up to *)
(* the next '.', ',' or the end; the scan resumes behind the separator.    *)
(* A separator is written without white space after the previous token, so *)
(* a trigger directly followed by a separator does not match.              *)
(***************************************************************************)
RECURSIVE PhraseEnd(_, _)
PhraseEnd(msg, j) ==
    IF j > Len(msg) \/ msg[j] \in Separators THEN j ELSE PhraseEnd(msg, j + 1)

RECURSIVE FindAll(_, _, _)
FindAll(triggers, msg, i) ==
    IF i > Len(msg) THEN <<>>
    ELSE IF /\ msg[i] \in triggers
            /\ i + 1 <= Len(msg)
            /\ msg[i + 1] \notin Separators
         THEN LET e == PhraseEnd(msg, i + 1)
              IN  <<SubSeq(msg, i + 1, e - 1)>> \o FindAll(triggers, msg, e + 1)
         ELSE FindAll(triggers, msg, i + 1)

\* the `details` dictionary: category -> matches, for the categories that matched
Details(user_message) ==
    [c \in {d \in Categories : FindAll(patterns[d], user_message, 1) # <<>>}
        |-> FindAll(patterns[c], user_message, 1)]

InSeq(x, s) == \E i \in 1..Len(s) : s[i] = x

\* a merge that appends every extracted value, stored already or not
AddUnique_Extend(current_values, values) == current_values \o values

\* for value in values: if value not in current_values: current_values.append(value)
RECURSIVE AddUnique(_, _)
AddUnique(current_values, values) ==
    IF values = <<>> THEN current_values
    ELSE AddUnique(IF InSeq(Head(values), current_values) THEN current_values
                   ELSE Append(current_values, Head(values)),
                   Tail(values))

\* a merge that overwrites the stored list with the extracted values
MergeCategory_Overwrite(stored, values) == values

\* the merge of one category of the stored row with the extracted values
MergeCategory(stored, values) ==
    IF stored # <<>> THEN AddUnique(stored, values) ELSE values

\* updated_details after the loop over details.items()
MergeDetails(row, details) ==
    [row EXCEPT !.lists =
        [c \in Categories |->
            IF c \in DOMAIN details THEN MergeCategory(row.lists[c], details[c])
            ELSE row.lists[c]]]

\* indexes of the rows select("*").eq("user_id", user_id) returns
RowsOf(table, user_id) == {i \in 1..Len(table) : table[i].user_id = user_id}

NextId(table) ==
    IF table = <<>> THEN 1
    ELSE 1 + (CHOOSE m \in {table[i].id : i \in 1..Len(table)} :
                 \A i \in 1..Len(table) : table[i].id <= m)

\* insert({"user_id": user_id, **details}): unmatched categories stay NULL
NewDetailsRow(table, user_id, details) ==
    [id |-> NextId(table), user_id |-> user_id,
     lists |-> [c \in Categories |-> IF c \in DOMAIN details THEN details[c] ELSE <<>>]]

\* update(updated_details).eq("user_id", user_id): every row of the user is
\* set to updated_details, the primary key included; with more than one row
\* of the user the statement violates the key and nothing is written
UpdateDetails(table, user_id, updated_details) ==
    IF Cardinality(RowsOf(table, user_id)) > 1 THEN table
    ELSE [i \in 1..Len(table) |->
            IF table[i].user_id = user_id THEN updated_details ELSE table[i]]

(***************************************************************************)
(* extract_personal_details as one step: the table afterwards.  db_ok      *)
(* tells whether the Supabase calls succeed; an exception of either call   *)
(* is caught and printed.  `first` is the row the select returns first.    *)
(***************************************************************************)
StoreExtracted(table, user_id, details, db_ok, first) ==
    IF DOMAIN details = {} \/ user_id = "" THEN table
    ELSE IF ~db_ok THEN table
    ELSE IF RowsOf(table, user_id) # {}
         THEN UpdateDetails(table, user_id, MergeDetails(table[first], details))
         ELSE Append(table, NewDetailsRow(table, user_id, details))

StoreDetails(table, user_id, user_message, db_ok, first) ==
    StoreExtracted(table, user_id, Details(user_message), db_ok, first)

FirstRows(table, user_id) ==
    IF RowsOf(table, user_id) = {} THEN {0} ELSE RowsOf(table, user_id)

(***************************************************************************)
(* SpecDetails: extract_personal_details called for one message after the  *)
(* other, as the chat endpoints and humanize_response call it.             *)
(***************************************************************************)
NoCall == [user_id |-> None, details |-> EmptyDict, db_ok |-> TRUE, n |-> 0]

ExtractPersonalDetails ==
    /\ call.n < MaxCalls
    /\ \E user_id \in Users, user_message \in Messages \cup LongMessages, db_ok \in BOOLEAN :
       \E first \in FirstRows(user_personal_details, user_id) :
        /\ user_personal_details' =
               StoreDetails(user_personal_details, user_id, user_message, db_ok, first)
        /\ call' = [user_id |-> user_id, details |-> Details(user_message),
                    db_ok |-> db_ok, n |-> call.n + 1]
    /\ UNCHANGED <<users, chat_messages, ollama_url, nreq, resp, taskVars, bias, emotion, extracting, humanize>>

(***************************************************************************)
(* extract_personal_details called concurrently: each server process runs  *)
(* the function for one request; the select (main.py 286) and the update   *)
(* or insert (main.py 312, 315) are separate calls to Supabase, and the    *)
(* calls of the processes interleave.                                      *)
(***************************************************************************)
Processes == {"p1", "p2"}

\* the messages of the concurrent requests
ConcurrentMessages == {<<"i love", "cats">>, <<"i love", "run">>, <<"i want to", "run">>}

NoExtract ==
    [p \in Processes |->
        [pc |-> "idle", user_id |-> None, details |-> EmptyDict, db_ok |-> TRUE,
         existing |-> <<>>]]

\* the function up to existing_details = ...select("*").eq(...).execute():
\* without details (or when the select raises) the function is over
ExtractSelect(p) ==
    /\ extracting[p].pc = "idle"
    /\ \E user_id \in Users, user_message \in ConcurrentMessages \cup {<<"cats">>},
          db_ok \in BOOLEAN :
       \E first \in FirstRows(user_personal_details, user_id) :
        LET details == Details(user_message)
            stored == DOMAIN details # {} /\ db_ok
        IN  extracting' =
                [extracting EXCEPT ![p] =
                    [pc |-> IF stored THEN "selected" ELSE "done",
                     user_id |-> user_id, details |-> details, db_ok |-> db_ok,
                     existing |-> IF stored /\ first # 0
                                  THEN <<user_personal_details[first]>> ELSE <<>>]]
    /\ UNCHANGED <<chatVars, taskVars, call, bias, emotion, humanize>>

\* the rest of the function: the row read before is merged and written back,
\* or a new row is inserted when the select had found none
ExtractWrite(p) ==
    /\ extracting[p].pc = "selected"
    /\ LET e == extracting[p]
       IN  user_personal_details' =
               IF e.existing # <<>>
               THEN UpdateDetails(user_personal_details, e.user_id,
                                  MergeDetails(e.existing[1], e.details))
               ELSE Append(user_personal_details,
                           NewDetailsRow(user_personal_details, e.user_id, e.details))
    /\ extracting' = [extracting EXCEPT ![p].pc = "done"]
    /\ UNCHANGED <<users, chat_messages, ollama_url, nreq, resp, taskVars, call, bias,
                   emotion, humanize>>

(***************************************************************************)
(* Python values that reach create_future_self_prompt: a str or a dict.    *)
(***************************************************************************)
Str(v) == [type |-> "str", v |-> v]
Dict(v) == [type |-> "dict", v |-> v]

\* dict.get(key, default)
Get(d, key, default) == IF key \in DOMAIN d THEN d[key] ELSE default

\* truth value of a str or None
Truthy(v) == v # None /\ v # ""

\* what select(...).eq("id", user_id) returns for a user: no row or one row
NoRow == <<>>
UserRows == {NoRow,
             <<[name |-> None, current_location |-> ""]>>,
             <<[name |-> "Ann", current_location |-> "Paris"]>>}

\* names bound in the global namespace of main.py by its import statements
ModuleGlobals == {"os", "shutil", "uuid", "asyncio", "re", "base64", "random",
                  "requests", "whisper", "spacy", "subprocess", "sys", "librosa",
                  "np", "datetime", "json"}

\* user_response.data[0] if user_response.data else {}; {} when the select raises
FetchUser(table, user_id, ok) ==
    IF ok /\ table[user_id] # NoRow THEN table[user_id][1] ELSE EmptyDict

Last(s, n) == IF Len(s) > n THEN SubSeq(s, Len(s) - n + 1, Len(s)) ELSE s

RECURSIVE MapContext(_)
MapContext(rows) ==
    IF rows = <<>> THEN <<>>
    ELSE <<[role |-> IF Head(rows).author_id # "ai" THEN "You" ELSE "Your future self",
            content |-> Head(rows).content]>> \o MapContext(Tail(rows))

\* the last limit*2 rows of the user, oldest first, as "role: content" lines,
\* of which the last `limit` are kept; [] when the select raises
get_conversation_context(table, user_id, limit, ok) ==
    IF ~ok THEN <<>>
    ELSE LET IsOf(r) == r.user_id = user_id
         IN  Last(MapContext(Last(SelectSeq(table, IsOf), limit * 2)), limit)

\* WeatherEventsService().get_location_context(current_location), {} without
\* a location or when the service raises
WeatherContext(user_data, ok) ==
    IF Truthy(Get(user_data, "current_location", "")) /\ ok
    THEN [location |-> user_data["current_location"]]
    ELSE EmptyDict

\* create_future_self_prompt(user_message, user_profile, conversation_context,
\* weather_events_context): user_profile.get(...) raises AttributeError unless
\* user_profile is a dict
create_future_self_prompt(user_message, user_profile, conversation_context, weather_events_context) ==
    IF user_profile.type # "dict"
    THEN [raised |-> "AttributeError", name_part |-> None, user_message |-> <<>>,
          conversation_context |-> <<>>, weather_events_context |-> EmptyDict]
    ELSE LET user_name == Get(user_profile.v, "user_name", "")
         IN  [raised |-> None,
              name_part |-> IF Truthy(user_name) THEN user_name ELSE "your current self",
              user_message |-> user_message.v,
              conversation_context |-> conversation_context,
              weather_events_context |-> weather_events_context]

(***************************************************************************)
(* The Ollama server as the handlers see it.                               *)
(***************************************************************************)
max_retries == 3
retry_delay == 5

Outcomes == {"ok", "timeout", "connection_error", "http_error"}
Retried == {"timeout", "connection_error"}

\* what Ollama answers to the successive attempts of one /chat request
Oracles == {<<"ok", "ok", "ok">>,
            <<"http_error", "http_error", "http_error">>,
            <<"timeout", "ok", "ok">>,
            <<"connection_error", "timeout", "ok">>,
            <<"timeout", "timeout", "timeout">>,
            <<"connection_error", "connection_error", "connection_error">>,
            <<"timeout", "connection_error", "timeout">>,
            <<"timeout", "http_error", "http_error">>}

\* atoms of a model response and their lengths in characters
Atoms == {"a", "B"}
AtomLen(x) == IF x = "a" THEN 4 ELSE 12

RECURSIVE TextLen(_)
TextLen(text) == IF text = <<>> THEN 0 ELSE AtomLen(Head(text)) + TextLen(Tail(text))

RECURSIVE Concat(_)
Concat(texts) == IF texts = <<>> THEN <<>> ELSE Head(texts) \o Concat(Tail(texts))

\* response.json().get("response", "").strip()
OllamaText == <<"a", "B">>

(***************************************************************************)
(* humanize_response.  `pick` holds the outcomes of the random choices:    *)
(* the canned reply, the emoji (0: none) and whether a random edit is made *)
(* to a response that is not a greeting.                                   *)
(***************************************************************************)
simple_responses == <<"Hey! How's it going?", "Hi there! What's up?", "Hey {user_name}! How are you today?",
                      "Hi! What's new?", "Hey! Good to hear from you!">>
emojis == <<"wave", "smile", "thumbs_up", "victory", "slight_smile">>

Picks == [reply : 1..Len(simple_responses), emoji : 0..Len(emojis), edit : BOOLEAN]

\* humanize_response without the branch for simple greetings
humanize_response_NoGreeting(ai_response, user_name, user_message, pick) ==
    IF pick.edit THEN ai_response \o <<"edit">> ELSE ai_response

humanize_response(ai_response, user_name, user_message, pick) ==
    IF IsSimpleGreeting(user_message)
    THEN (IF pick.reply = 3 THEN <<"Hey ", user_name, "! How are you today?">>
          ELSE <<simple_responses[pick.reply]>>)
         \o (IF pick.emoji = 0 THEN <<>> ELSE <<emojis[pick.emoji]>>)
    ELSE IF pick.edit THEN ai_response \o <<"edit">> ELSE ai_response

(***************************************************************************)
(* humanize_response called on its own: the inputs of the call, and the    *)
(* call itself, which also stores the details of the message when a        *)
(* user_id is passed (main.py 429-434).                                    *)
(***************************************************************************)
UserNames == {"", "Ann"}

AiResponses == {<<"a">>, <<"B">>, <<"a", "B">>}

HumanizeMessages ==
    {<<>>, <<"hello">>, <<"Hello">>, <<Space, "HI", Space>>, <<"hi", "i love", "cats">>,
     <<"cats", "hey">>, <<"hey", ",">>, <<"cats">>, <<Space>>}

NoHumanize ==
    [called |-> FALSE, ai_response |-> <<>>, user_name |-> "", user_message |-> <<>>,
     result |-> <<>>]

HumanizeResponse ==
    /\ ~humanize.called
    /\ \E user_id \in Users \cup {None}, pick \in Picks, db_ok \in BOOLEAN :
       \E first \in FirstRows(user_personal_details, user_id) :
        /\ user_personal_details' =
               IF user_id # None /\ humanize.user_message # <<>>
               THEN StoreDetails(user_personal_details, user_id, humanize.user_message,
                                 db_ok, first)
               ELSE user_personal_details
        /\ humanize' = [humanize EXCEPT
                            !.called = TRUE,
                            !.result = humanize_response(humanize.ai_response,
                                                         humanize.user_name,
                                                         humanize.user_message, pick)]
    /\ UNCHANGED <<users, chat_messages, ollama_url, nreq, resp, taskVars, call, bias,
                   emotion, extracting>>

\* the row both chat endpoints insert into chat_messages
AiRow(user_id, content) == [user_id |-> user_id, content |-> content, author_id |-> "ai"]

\* supabase.table("chat_messages").insert(row).execute(); an exception is printed
InsertMessage(table, row, ok) == IF ok THEN Append(table, row) ELSE table

(***************************************************************************)
(* POST /chat: the retry loop around requests.post (main.py 1199-1235).    *)
(* The result is how the loop ends: with the response text, with the       *)
(* HTTPException raised after the last attempt, or with the                *)
(* RequestException that is not retried.                                   *)
(***************************************************************************)
RECURSIVE OllamaRetry(_, _, _, _)
OllamaRetry(oracle, attempt, delay, sleeps) ==
    LET out == oracle[attempt + 1]
    IN  IF out = "ok"
        THEN [ended |-> "ok", attempts |-> attempt + 1, sleeps |-> sleeps]
        ELSE IF out \in Retried
        THEN IF attempt < max_retries - 1
             THEN OllamaRetry(oracle, attempt + 1, delay * 2, Append(sleeps, delay))
             ELSE [ended |-> "HTTPException", attempts |-> attempt + 1, sleeps |-> sleeps,
                   detail |-> IF out = "timeout" THEN "taking too long to respond"
                              ELSE "Cannot connect to Ollama service"]
        ELSE [ended |-> "RequestException", attempts |-> attempt + 1, sleeps |-> sleeps]

(***************************************************************************)
(* POST /chat (chat_endpoint).  env: which of the external calls succeed   *)
(* and what Ollama answers.                                                *)
(***************************************************************************)
ChatEnvs == [details_ok : BOOLEAN, reads_ok : BOOLEAN, weather_ok : BOOLEAN,
             oracle : Oracles, lines : {<<>>}, slow : {FALSE}, insert_ok : BOOLEAN]

Response(endpoint, user_id, user_message, env, status, detail, body, steps, loop, events, prompt, inserted) ==
    [endpoint |-> endpoint, user_id |-> user_id, message |-> user_message,
     ollama |-> env.oracle, upstream |-> env.lines, insert_ok |-> env.insert_ok,
     reads_ok |-> env.reads_ok, consumed |-> 0, status |-> status, detail |-> detail, body |-> body, steps |-> steps,
     attempts |-> loop.attempts, sleeps |-> loop.sleeps, events |-> events,
     prompt |-> prompt, inserted |-> inserted]

NoLoop == [attempts |-> 0, sleeps |-> <<>>]

PipelineSteps == <<"extract_personal_details", "fetch_user", "get_conversation_context",
                   "create_future_self_prompt">>

ChatEndpoint ==
    /\ nreq < MaxRequests
    /\ \E user_id \in Users, user_message \in ChatInputs, env \in ChatEnvs :
       \E first \in FirstRows(user_personal_details, user_id) :
        LET details1 == StoreDetails(user_personal_details, user_id, user_message,
                                     env.details_ok, first)
            user_data == FetchUser(users, user_id, env.reads_ok)
            conversation_context ==
                get_conversation_context(chat_messages, user_id, 5, env.reads_ok)
            weather_events_context == WeatherContext(user_data, env.weather_ok)
            \* line 1187: the arguments in the order the call passes them
            prompt == create_future_self_prompt(Dict(user_data), Str(user_message),
                                                conversation_context, weather_events_context)
            loop == OllamaRetry(env.oracle, 0, retry_delay, <<>>)
            Resp(status, detail, body, steps, lp, inserted) ==
                Response("/chat", user_id, user_message, env, status, detail, body,
                         steps, lp, <<>>, prompt, inserted)
        IN  IF prompt.raised # None
            THEN \* not inside any try: the server answers 500
                 /\ resp' = Resp(500, "Internal Server Error", <<>>, PipelineSteps, NoLoop, 0)
                 /\ user_personal_details' = details1
                 /\ chat_messages' = chat_messages
            ELSE IF ollama_url = None
            THEN \* return {"error": ...} does not validate as ChatMessageResponse
                 /\ resp' = Resp(500, "Internal Server Error", <<>>, PipelineSteps, NoLoop, 0)
                 /\ user_personal_details' = details1
                 /\ chat_messages' = chat_messages
            ELSE IF loop.ended = "HTTPException"
            THEN \* raised inside the outer try: except Exception turns it into a 500
                 \* whose detail quotes the exception
                 /\ resp' = Resp(500, loop.detail, <<>>,
                                 Append(PipelineSteps, "ollama_post"), loop, 0)
                 /\ user_personal_details' = details1
                 /\ chat_messages' = chat_messages
            ELSE IF loop.ended = "RequestException"
            THEN /\ resp' = Resp(503, "Error communicating with Ollama", <<>>,
                                 Append(PipelineSteps, "ollama_post"), loop, 0)
                 /\ user_personal_details' = details1
                 /\ chat_messages' = chat_messages
            ELSE \E pick \in Picks, first2 \in FirstRows(details1, user_id) :
                 LET user_name == Get(user_data, "name", "")
                     text == humanize_response(OllamaText, user_name, user_message, pick)
                 IN  /\ resp' = Resp(200, None, text,
                                     Append(PipelineSteps, "ollama_post"), loop,
                                     IF env.insert_ok THEN 1 ELSE 0)
                     \* humanize_response extracts the details a second time
                     /\ user_personal_details' =
                            StoreDetails(details1, user_id, user_message,
                                         env.details_ok, first2)
                     /\ chat_messages' =
                            InsertMessage(chat_messages, AiRow(user_id, text), env.insert_ok)
    /\ nreq' = nreq + 1
    /\ UNCHANGED <<users, ollama_url>>
    /\ UNCHANGED <<taskVars, call, bias, emotion, extracting, humanize>>

(***************************************************************************)
(* POST /chat/stream (chat_stream_endpoint and its generator).             *)
(***************************************************************************)
Chunk(text, done) == [response |-> text, done |-> done]
Blank == [blank |-> TRUE]

\* the lines response.iter_lines() yields when Ollama streams to completion
Upstreams == {<<Chunk(<<"a">>, FALSE), Chunk(<<"B">>, FALSE), Chunk(<<>>, TRUE)>>,
              <<Chunk(<<"a">>, FALSE), Blank, Chunk(<<"a">>, TRUE)>>}

RECURSIVE UpstreamText(_)
UpstreamText(lines) ==
    IF lines = <<>> THEN <<>>
    ELSE (IF "response" \in DOMAIN Head(lines) THEN Head(lines).response ELSE <<>>)
         \o UpstreamText(Tail(lines))

StreamEnvs ==
    {e \in [details_ok : BOOLEAN, reads_ok : BOOLEAN, weather_ok : BOOLEAN,
            oracle : {<<o>> : o \in Outcomes}, lines : Upstreams \cup {<<>>},
            slow : BOOLEAN, insert_ok : BOOLEAN] :
        /\ (e.oracle[1] = "ok") = (e.lines # <<>>)
        /\ e.oracle[1] # "ok" => ~e.slow /\ e.insert_ok}

\* one "data: {...}" event; an error event carries its message in `text`
Event(kind, text) == [kind |-> kind, text |-> text]

\* the except clauses of generate_stream followed by one more event
OnStreamException_ThenDone(events, exc) ==
    events \o <<Event("error", <<"Error communicating with Ollama">>),
                Event("done", <<>>)>>

\* the except clauses of generate_stream (main.py 1903-1908): one error event
OnStreamException(events, exc) ==
    Append(events, Event("error", <<IF exc = "RequestException"
                                    THEN "Error communicating with Ollama"
                                    ELSE "An unexpected error occurred">>))

\* the for loop over response.iter_lines() (main.py 1824-1876); `slow` tells
\* whether 0.5 s have passed since the last chunk was sent, `humanized` is
\* what humanize_response returns for the final chunk
RECURSIVE StreamLoop(_, _, _, _, _, _)
StreamLoop(lines, i, st, user_message, slow, humanized) ==
    IF i > Len(lines) THEN st
    ELSE LET line == lines[i]
         IN  IF "response" \notin DOMAIN line
             THEN StreamLoop(lines, i + 1, [st EXCEPT !.consumed = i], user_message,
                             slow, humanized)
             ELSE LET complete_response == st.complete_response \o line.response
                      accumulated_text == st.accumulated_text \o line.response
                  IN  IF /\ line.done
                         /\ IsSimpleGreeting(user_message)
                         /\ humanized # complete_response
                      THEN [complete_response |-> humanized,
                            accumulated_text |-> accumulated_text,
                            events |-> st.events \o <<Event("typing_stopped", <<>>),
                                                      Event("text_done", humanized)>>,
                            consumed |-> i]
                      ELSE IF TextLen(accumulated_text) >= 10 \/ slow
                      THEN StreamLoop(lines, i + 1,
                               [complete_response |-> complete_response,
                                accumulated_text |-> <<>>,
                                events |-> Append(st.events, Event("text", accumulated_text)),
                                consumed |-> i],
                               user_message, slow, humanized)
                      ELSE StreamLoop(lines, i + 1,
                               [complete_response |-> complete_response,
                                accumulated_text |-> accumulated_text,
                                events |-> st.events, consumed |-> i],
                               user_message, slow, humanized)

\* the texts of the 'text' events of a stream, concatenated in emission order
RECURSIVE EventText(_)
EventText(events) ==
    IF events = <<>> THEN <<>>
    ELSE (IF Head(events).kind \in {"text", "text_done"} THEN Head(events).text ELSE <<>>)
         \o EventText(Tail(events))

ChatStreamEndpoint ==
    /\ nreq < MaxRequests
    /\ \E user_id \in Users, user_message \in ChatInputs, env \in StreamEnvs :
       \E first \in FirstRows(user_personal_details, user_id) :
        LET details1 == StoreDetails(user_personal_details, user_id, user_message,
                                     env.details_ok, first)
            user_data == FetchUser(users, user_id, env.reads_ok)
            conversation_context ==
                get_conversation_context(chat_messages, user_id, 5, env.reads_ok)
            weather_events_context == WeatherContext(user_data, env.weather_ok)
            prompt == create_future_self_prompt(Str(user_message), Dict(user_data),
                                                conversation_context, weather_events_context)
            typing == <<Event("typing", <<>>)>>
            Resp(status, body, steps, attempts, events, inserted) ==
                Response("/chat/stream", user_id, user_message, env, status, None, body,
                         steps, [attempts |-> attempts, sleeps |-> <<>>], events, prompt,
                         inserted)
        IN  IF prompt.raised # None
            THEN /\ resp' = Resp(500, <<>>, PipelineSteps, 0, <<>>, 0)
                 /\ user_personal_details' = details1
                 /\ chat_messages' = chat_messages
            ELSE IF ollama_url = None
            THEN /\ resp' = Resp(200, <<"error: Ollama API URL not configured">>, PipelineSteps, 0, <<>>, 0)
                 /\ user_personal_details' = details1
                 /\ chat_messages' = chat_messages
            ELSE IF env.oracle[1] # "ok"
            THEN \* requests.post or raise_for_status raises a RequestException
                 /\ resp' = Resp(200, <<>>, Append(PipelineSteps, "ollama_post"), 1,
                                 OnStreamException(typing, "RequestException"), 0)
                 /\ user_personal_details' = details1
                 /\ chat_messages' = chat_messages
            ELSE IF "time" \notin ModuleGlobals
            THEN \* line 1822: time.time() raises NameError, caught by except Exception
                 /\ resp' = Resp(200, <<>>, Append(PipelineSteps, "ollama_post"), 1,
                                 OnStreamException(typing, "NameError"), 0)
                 /\ user_personal_details' = details1
                 /\ chat_messages' = chat_messages
            ELSE \E pick \in Picks, first2 \in FirstRows(details1, user_id) :
                 LET user_name == Get(user_data, "name", "")
                     \* humanize_response runs once more (and extracts the details
                     \* once more) when the final chunk arrives
                     details2 == StoreDetails(details1, user_id, user_message,
                                              env.details_ok, first2)
                     humanized == humanize_response(UpstreamText(env.lines), user_name,
                                                    user_message, pick)
                     st == StreamLoop(env.lines, 1,
                                      [complete_response |-> <<>>, accumulated_text |-> <<>>,
                                       events |-> typing, consumed |-> 0],
                                      user_message, env.slow, humanized)
                     content == IF IsSimpleGreeting(user_message) THEN st.complete_response
                                ELSE humanize_response(st.complete_response, user_name,
                                                       user_message, pick)
                 IN  /\ resp' = [Resp(200, <<>>, Append(PipelineSteps, "ollama_post"), 1,
                                      Append(st.events, Event("done", <<>>)),
                                      IF env.insert_ok THEN 1 ELSE 0)
                                 EXCEPT !.consumed = st.consumed]
                     /\ user_personal_details' = details2
                     /\ chat_messages' =
                            InsertMessage(chat_messages, AiRow(user_id, content), env.insert_ok)
    /\ nreq' = nreq + 1
    /\ UNCHANGED <<users, ollama_url>>
    /\ UNCHANGED <<taskVars, call, bias, emotion, extracting, humanize>>

(***************************************************************************)
(* Celery: the tasks of tasks.py, the two Celery applications (tasks.py    *)
(* and celery_worker.py), the worker and the task endpoints of main.py.    *)
(* A task id is the position of the task in submitted.                     *)
(***************************************************************************)
TaskKinds == {"transcribe", "synthesize", "analyze-emotion", "analyze-bias"}

TaskIds == 1..MaxTasks

\* of the tasks main.py imports only tasks.transcribe_audio is bound and
\* calls self.update_state(state='PROGRESS'); the names synthesize_speech,
\* analyze_emotion and analyze_bias are bound to the second definitions
Bound(kind) == kind = "transcribe"

\* how a task body ends: transcribe_audio re-raises, the other bodies catch
\* every exception and return an error dict
BodyOutcomes(kind) ==
    IF Bound(kind) THEN {"returned", "raised"} ELSE {"returned", "caught"}

NoResult == [kind |-> None, error |-> FALSE, user_id |-> None, voice_emotions |-> FALSE]

\* the positional arguments main.py passes to <task>.delay(...)
TaskArgs(kind, request) ==
    CASE kind = "transcribe" -> <<"audio_data_base64", request.user_id>>
      [] kind = "synthesize" -> <<"text", request.user_id>>
      [] kind = "analyze-emotion" -> <<"text", request.audio_file, request.user_id>>
      [] kind = "analyze-bias" -> <<"text", request.user_id>>

\* the parameters of the task functions, self left out
TaskParams(kind) ==
    CASE kind = "transcribe" -> <<"audio_content", "user_id">>
      [] kind = "synthesize" -> <<"text", "user_id">>
      [] kind = "analyze-emotion" -> <<"text", "user_id", "audio_file">>
      [] kind = "analyze-bias" -> <<"text", "user_id">>

\* Python binds positional arguments to the parameters in order
Bind(params, args) ==
    [p \in {params[i] : i \in 1..Len(args)} |->
        args[CHOOSE i \in 1..Len(args) : params[i] = p]]

\* the dict a task body returns: the error dict carries no user_id;
\* analyze_emotion adds voice_emotions `if audio_file:`
TaskReturn(kind, outcome, args) ==
    LET bound == Bind(TaskParams(kind), args)
    IN  IF outcome = "caught"
        THEN [kind |-> kind, error |-> TRUE, user_id |-> None, voice_emotions |-> FALSE]
        ELSE [kind |-> kind, error |-> FALSE, user_id |-> bound["user_id"],
              voice_emotions |-> kind = "analyze-emotion"
                                 /\ Truthy(Get(bound, "audio_file", None))]

\* the application a worker is started from: celery -A tasks or
\* celery -A celery_worker (python celery_worker.py)
WorkerApps == {"tasks", "celery_worker"}

\* tasks.py sets task_acks_late, celery_worker.py leaves the default (False)
task_acks_late(app) == app = "tasks"

\* celery_worker.py sets task_track_started, tasks.py leaves the default
task_track_started(app) == app = "celery_worker"

READY_STATES == {"SUCCESS", "FAILURE", "REVOKED"}

\* AsyncResult.ready() taken for "the task left PENDING and STARTED"
ready_NotPending(state) == state \notin {"PENDING", "STARTED"}

\* AsyncResult.ready()
ready(state) == state \in READY_STATES

\* AsyncResult.failed()
failed(state) == state = "FAILURE"

NoBody == [kind |-> None, payload |-> None]

Answer(endpoint, kind, id, state, code, detail, body) ==
    [endpoint |-> endpoint, kind |-> kind, task_id |-> id, state |-> state,
     code |-> code, detail |-> detail, body |-> body]

NoPoll == Answer(None, None, 0, None, 0, None, NoBody)

\* the response model built from result.get(key, default)
ResultResponse(kind, result) ==
    [kind |-> kind, payload |-> IF result.error THEN "defaults" ELSE "result"]

\* GET /<kind>/result/{task_id}
GetResult(kind, id, task) ==
    IF ~ready(task.state)
    THEN Answer("result", kind, id, task.state, 202, "Task is still processing", NoBody)
    ELSE IF failed(task.state)
    THEN Answer("result", kind, id, task.state, 500, "Task failed", NoBody)
    ELSE IF task.state # "SUCCESS"
    \* task_result.get() raises or never returns
    THEN Answer("result", kind, id, task.state, 500, "Error getting task result", NoBody)
    ELSE Answer("result", kind, id, task.state, 200, None,
                ResultResponse(kind, task.result))

\* GET /<kind>/status/{task_id}
GetStatus(kind, id, task) ==
    Answer("status", kind, id, task.state, 200, None,
           [kind |-> kind, payload |-> task.state])

\* only the emotion endpoint looks at its service
ServiceOf_EmotionOnly(kind) ==
    IF kind = "analyze-emotion" THEN "emotion_service" ELSE None

\* the service a submitting endpoint requires to be loaded
ServiceOf(kind) ==
    CASE kind = "analyze-emotion" -> "emotion_service"
      [] kind = "analyze-bias" -> "bias_service"
      [] OTHER -> None

\* POST /transcribe, /synthesize, /analyze-emotion, /analyze-bias and the
\* aliases /nlp/emotion and /nlp/bias, which build the request and call the
\* endpoint they stand for
SubmitTask ==
    /\ Len(submitted) < MaxTasks
    /\ \E kind \in TaskKinds : \E user_id \in {None, "u1"} : \E alias \in BOOLEAN :
       \E audio_file \in {None, "audio"} :
          LET id == Len(submitted) + 1
              endpoint == IF alias THEN "submit_alias" ELSE "submit"
              request == [user_id |-> user_id, audio_file |-> audio_file]
          IN  /\ alias => ServiceOf(kind) # None
              \* user_id is a required field of all request bodies but the
              \* upload's; only EmotionAnalysisRequest has audio_file
              /\ user_id = None => kind = "transcribe"
              /\ audio_file # None => kind = "analyze-emotion"
              /\ IF kind = "transcribe" /\ user_id = None
                 THEN /\ poll' = Answer(endpoint, kind, 0, None, 400,
                                        "User ID must be provided", NoBody)
                      /\ UNCHANGED <<submitted, broker>>
                 ELSE IF ServiceOf(kind) # None /\ ~services[ServiceOf(kind)]
                 THEN /\ poll' = Answer(endpoint, kind, 0, None, 503,
                                        "service is not available", NoBody)
                      /\ UNCHANGED <<submitted, broker>>
                 ELSE /\ submitted' = Append(submitted,
                                             [kind |-> kind, request |-> request,
                                              args |-> TaskArgs(kind, request)])
                      /\ broker' = Append(broker, id)
                      /\ poll' = Answer(endpoint, kind, id, None, 200, None,
                                        [kind |-> kind, payload |-> "task_id"])
    /\ UNCHANGED <<unacked, worker, backend, runs, services>>
    /\ UNCHANGED <<chatVars, call, bias, emotion, extracting, humanize>>

\* the endpoint a client polls is the one of the kind it submitted; an id
\* the backend has never heard of is reported PENDING
PollKinds(id) ==
    IF id <= Len(submitted) THEN {submitted[id].kind} ELSE TaskKinds

PollResult ==
    /\ \E id \in TaskIds : \E kind \in PollKinds(id) :
          poll' = GetResult(kind, id, backend[id])
    /\ UNCHANGED <<broker, unacked, worker, backend, runs, submitted, services>>
    /\ UNCHANGED <<chatVars, call, bias, emotion, extracting, humanize>>

PollStatus ==
    /\ \E id \in TaskIds : \E kind \in PollKinds(id) :
          poll' = GetStatus(kind, id, backend[id])
    /\ UNCHANGED <<broker, unacked, worker, backend, runs, submitted, services>>
    /\ UNCHANGED <<chatVars, call, bias, emotion, extracting, humanize>>

\* the worker takes the next message: an application without acks_late
\* acknowledges it before the body runs
WorkerReceive ==
    /\ worker.up
    /\ worker.running = 0
    /\ broker # <<>>
    /\ LET id == Head(broker)
       IN  /\ broker' = Tail(broker)
           /\ unacked' = IF task_acks_late(worker.app)
                         THEN unacked \cup {id} ELSE unacked
           /\ worker' = [worker EXCEPT !.running = id, !.pc = "received"]
    /\ UNCHANGED <<backend, runs, submitted, poll, services>>
    /\ UNCHANGED <<chatVars, call, bias, emotion, extracting, humanize>>

\* the body starts: with task_track_started the backend reports STARTED
TaskStarted ==
    /\ worker.up
    /\ worker.running # 0
    /\ worker.pc = "received"
    /\ backend' = IF task_track_started(worker.app)
                  THEN [backend EXCEPT ![worker.running].state = "STARTED"]
                  ELSE backend
    /\ worker' = [worker EXCEPT !.pc = "started"]
    /\ UNCHANGED <<broker, unacked, runs, submitted, poll, services>>
    /\ UNCHANGED <<chatVars, call, bias, emotion, extracting, humanize>>

\* self.update_state(state='PROGRESS', ...)
TaskProgress ==
    /\ worker.up
    /\ worker.running # 0
    /\ worker.pc = "started"
    /\ Bound(submitted[worker.running].kind)
    /\ backend' = [backend EXCEPT ![worker.running].state = "PROGRESS"]
    /\ worker' = [worker EXCEPT !.pc = "progress"]
    /\ UNCHANGED <<broker, unacked, runs, submitted, poll, services>>
    /\ UNCHANGED <<chatVars, call, bias, emotion, extracting, humanize>>

\* the body returns or raises and the worker stores the outcome
TaskFinish ==
    /\ worker.up
    /\ worker.running # 0
    /\ LET id == worker.running
           kind == submitted[id].kind
       IN  /\ worker.pc = IF Bound(kind) THEN "progress" ELSE "started"
           /\ \E outcome \in BodyOutcomes(kind) :
                 backend' = [backend EXCEPT ![id] =
                               IF outcome = "raised"
                               THEN [state |-> "FAILURE", result |-> NoResult]
                               ELSE [state |-> "SUCCESS",
                                     result |-> TaskReturn(kind, outcome,
                                                           submitted[id].args)]]
           /\ runs' = [runs EXCEPT ![id] = @ + 1]
    /\ worker' = [worker EXCEPT !.pc = "finished"]
    /\ UNCHANGED <<broker, unacked, submitted, poll, services>>
    /\ UNCHANGED <<chatVars, call, bias, emotion, extracting, humanize>>

\* with acks_late the message is acknowledged now, after the body
WorkerAck ==
    /\ worker.up
    /\ worker.running # 0
    /\ worker.pc = "finished"
    /\ unacked' = unacked \ {worker.running}
    /\ worker' = [worker EXCEPT !.running = 0, !.pc = "idle"]
    /\ UNCHANGED <<broker, backend, runs, submitted, poll, services>>
    /\ UNCHANGED <<chatVars, call, bias, emotion, extracting, humanize>>

\* the worker process dies while it holds a task
WorkerCrash ==
    /\ worker.up
    /\ worker.running # 0
    /\ worker.crashes < MaxCrashes
    /\ worker' = [worker EXCEPT !.up = FALSE, !.running = 0, !.pc = "idle",
                                !.crashes = @ + 1]
    /\ UNCHANGED <<broker, unacked, backend, runs, submitted, poll, services>>
    /\ UNCHANGED <<chatVars, call, bias, emotion, extracting, humanize>>

WorkerRestart ==
    /\ ~worker.up
    /\ worker' = [worker EXCEPT !.up = TRUE]
    /\ UNCHANGED <<broker, unacked, backend, runs, submitted, poll, services>>
    /\ UNCHANGED <<chatVars, call, bias, emotion, extracting, humanize>>

\* the broker puts a message that was delivered and never acknowledged
\* back on the queue
Redeliver ==
    /\ \E id \in unacked :
          /\ worker.running # id
          /\ unacked' = unacked \ {id}
          /\ broker' = Append(broker, id)
    /\ UNCHANGED <<worker, backend, runs, submitted, poll, services>>
    /\ UNCHANGED <<chatVars, call, bias, emotion, extracting, humanize>>

(***************************************************************************)
(* BiasAnalysisService (bias_analysis_service.py). A text is a sequence of *)
(* tokens, " " standing for white space; scores are percentages (0.3 is    *)
(* 30). A dict is a function from its keys.                                *)
(***************************************************************************)
BiasTexts ==
    { <<>>, <<Space>>, <<"kind", "people">>, <<"women", "are", "kind">>,
      <<"he", "always", "women", "always">>,
      <<"old", "people", "are", "always">> }

NonSpace(token) == token # Space

\* text.strip() is empty
IsBlank(text) == SelectSeq(text, NonSpace) = <<>>

BiasTypes == {"gender", "racial", "age", "religious", "socioeconomic"}

\* self.bias_patterns restricted to the words of BiasTexts: a pattern is the
\* sequence of its alternations, \s+ between them
bias_patterns ==
    [gender |-> << << {"women"}, {"are", "always"} >>, << {"he"}, {"always"} >> >>,
     racial |-> << >>,
     age |-> << << {"old"}, {"people"}, {"are", "always"} >> >>,
     religious |-> << >>,
     socioeconomic |-> << >>]

toxicity_thresholds == [low |-> 30, medium |-> 60, high |-> 80]

Max(a, b) == IF a > b THEN a ELSE b

\* what the libraries do in one call: langdetect.detect, Detoxify.predict,
\* the toxic-bert pipeline and spaCy
LangOutcomes == {"en", "LangDetectException", "Exception"}

PredictOutcomes ==
    {[raises |-> TRUE, toxicity |-> 0, insult |-> 0]} \cup
    {[raises |-> FALSE, toxicity |-> t, insult |-> i] : t \in {5, 45}, i \in {5, 70, 90}}

ClassifierOutcomes ==
    {[raises |-> TRUE, empty |-> FALSE, label |-> None, score |-> 0],
     [raises |-> FALSE, empty |-> TRUE, label |-> None, score |-> 0],
     [raises |-> FALSE, empty |-> FALSE, label |-> "TOXIC", score |-> 95],
     [raises |-> FALSE, empty |-> FALSE, label |-> "NON_TOXIC", score |-> 60]}

\* _initialize_models sets the three models, or none of them
BiasEnvs ==
    [models : BOOLEAN, lang : LangOutcomes, predict : PredictOutcomes,
     classifier : ClassifierOutcomes, nlp_raises : BOOLEAN]

_determine_toxicity_level(score) ==
    IF score >= toxicity_thresholds.high THEN "high"
    ELSE IF score >= toxicity_thresholds.medium THEN "medium"
    ELSE IF score >= toxicity_thresholds.low THEN "low"
    ELSE "none"

_analyze_toxicity(text, env) ==
    IF ~env.models THEN [error |-> "Detoxify model not available"]
    ELSE IF env.predict.raises THEN [error |-> "Exception"]
    ELSE LET max_score == Max(env.predict.toxicity, env.predict.insult)
         IN  [scores |-> [toxicity |-> env.predict.toxicity,
                          insult |-> env.predict.insult],
              overall_toxicity |-> max_score,
              toxicity_level |-> _determine_toxicity_level(max_score),
              is_toxic |-> max_score > toxicity_thresholds.low]

MatchAt(pattern, words, i) ==
    /\ i + Len(pattern) - 1 <= Len(words)
    /\ \A k \in 1..Len(pattern) : words[i + k - 1] \in pattern[k]

\* len(list(re.finditer(pattern, text))): matches do not overlap
RECURSIVE FindIter(_, _, _)
FindIter(pattern, words, i) ==
    IF i > Len(words) THEN 0
    ELSE IF MatchAt(pattern, words, i)
         THEN 1 + FindIter(pattern, words, i + Len(pattern))
         ELSE FindIter(pattern, words, i + 1)

RECURSIVE CountMatches(_, _, _)
CountMatches(pats, words, p) ==
    IF p > Len(pats) THEN 0
    ELSE FindIter(pats[p], words, 1) + CountMatches(pats, words, p + 1)

_calculate_bias_severity(match_count) ==
    IF match_count = 0 THEN "none"
    ELSE IF match_count = 1 THEN "mild"
    ELSE IF match_count <= 3 THEN "moderate"
    ELSE "severe"

_detect_bias_patterns(text) ==
    LET words == SelectSeq(text, NonSpace)
        count(t) == CountMatches(bias_patterns[t], words, 1)
        detected_biases ==
            [t \in BiasTypes |->
                [detected |-> count(t) > 0, count |-> count(t),
                 severity |-> _calculate_bias_severity(count(t))]]
    IN  [bias_types |-> detected_biases,
         total_bias_indicators |->
             count("gender") + count("racial") + count("age")
             + count("religious") + count("socioeconomic"),
         has_bias |-> \E t \in BiasTypes : detected_biases[t].detected]

_analyze_hate_speech(text, env) ==
    IF ~env.models THEN [error |-> "Hate speech classifier not available"]
    ELSE IF env.classifier.raises THEN [error |-> "Exception"]
    ELSE LET is_hate_speech == ~env.classifier.empty /\ env.classifier.label = "TOXIC"
             confidence == IF env.classifier.empty THEN 0 ELSE env.classifier.score
         IN  [is_hate_speech |-> is_hate_speech,
              confidence |-> confidence,
              classification |-> IF is_hate_speech THEN "hate_speech"
                                 ELSE "not_hate_speech"]

CountIn(words, S) == Len(SelectSeq(words, LAMBDA w : w \in S))

_analyze_linguistic_bias(text, env) ==
    IF ~env.models THEN [error |-> "spaCy model not available"]
    ELSE IF env.nlp_raises THEN [error |-> "Exception"]
    ELSE LET words == SelectSeq(text, NonSpace)
             absolute_count ==
                 CountIn(words, {"always", "never", "all", "none", "every",
                                 "completely", "totally"})
             generalization_count ==
                 IF FindIter(<<{"people"}, {"are"}>>, words, 1) > 0 THEN 1 ELSE 0
             emotional_count ==
                 CountIn(words, {"hate", "love", "terrible", "amazing", "awful",
                                 "perfect"})
         IN  [absolute_statements |-> absolute_count,
              generalizations |-> generalization_count,
              emotional_language |-> emotional_count,
              word_count |-> Len(words),
              bias_indicators |->
                  [excessive_absolutes |-> absolute_count > 2,
                   many_generalizations |-> generalization_count > 1]]

_calculate_overall_assessment(toxicity, bias_found, hate_speech) ==
    LET toxicity_risk ==
            IF "overall_toxicity" \in DOMAIN toxicity
            THEN toxicity.overall_toxicity ELSE 0
        bias_risk ==
            IF bias_found.has_bias
            THEN Min(bias_found.total_bias_indicators * 20, 100) ELSE 0
        hate_speech_risk ==
            IF "confidence" \in DOMAIN hate_speech /\ hate_speech.is_hate_speech
            THEN hate_speech.confidence ELSE 0
        overall_risk == Max(toxicity_risk, Max(bias_risk, hate_speech_risk))
    IN  [overall_risk_score |-> overall_risk,
         risk_level |-> IF overall_risk >= 80 THEN "high"
                        ELSE IF overall_risk >= 50 THEN "medium"
                        ELSE IF overall_risk >= 20 THEN "low"
                        ELSE "minimal",
         component_risks |-> [toxicity |-> toxicity_risk, bias |-> bias_risk,
                              hate_speech |-> hate_speech_risk],
         is_problematic |-> overall_risk > 30,
         requires_review |-> overall_risk > 50]

_generate_recommendations(assessment) ==
    (CASE assessment.risk_level = "high" ->
            <<"Content requires immediate review and likely modification",
              "Consider rewriting to remove harmful language",
              "Seek diverse perspectives before publishing">>
       [] assessment.risk_level = "medium" ->
            <<"Content should be reviewed for potential bias",
              "Consider softening absolute statements",
              "Review for inclusive language">>
       [] assessment.risk_level = "low" ->
            <<"Minor adjustments may improve inclusivity",
              "Consider alternative phrasing for sensitive topics">>
       [] OTHER ->
            <<"Content appears to be free of significant bias or toxicity">>)
    \o (IF assessment.component_risks.toxicity > 50
        THEN <<"Remove or replace toxic language">> ELSE <<>>)
    \o (IF assessment.component_risks.bias > 50
        THEN <<"Address biased generalizations or stereotypes">> ELSE <<>>)
    \o (IF assessment.component_risks.hate_speech > 50
        THEN <<"Content may contain hate speech - immediate review required">>
        ELSE <<>>)

_empty_bias_result(error) ==
    LET result ==
            [timestamp |-> "now",
             toxicity_analysis |-> [overall_toxicity |-> 0, toxicity_level |-> "none",
                                    is_toxic |-> FALSE],
             bias_patterns |-> [has_bias |-> FALSE, total_bias_indicators |-> 0],
             hate_speech_analysis |-> [is_hate_speech |-> FALSE, confidence |-> 0],
             overall_assessment |-> [overall_risk_score |-> 0, risk_level |-> "minimal",
                                     is_problematic |-> FALSE,
                                     requires_review |-> FALSE],
             recommendations |-> <<"No analysis performed">>]
    IN  IF error # None THEN result @@ [error |-> error] ELSE result

analyze_bias_and_toxicity(text, env) ==
    IF text = <<>> \/ IsBlank(text) THEN _empty_bias_result(None)
    \* _detect_language catches LangDetectException only
    ELSE IF env.lang = "Exception" THEN _empty_bias_result("Exception")
    ELSE LET language == IF env.lang = "LangDetectException" THEN "unknown"
                         ELSE env.lang
             toxicity_results == _analyze_toxicity(text, env)
             found == _detect_bias_patterns(text)
             hate_speech_results == _analyze_hate_speech(text, env)
             linguistic_analysis == _analyze_linguistic_bias(text, env)
             overall_assessment ==
                 _calculate_overall_assessment(toxicity_results, found,
                                               hate_speech_results)
         IN  [timestamp |-> "now",
              input_text |-> text,
              language |-> language,
              toxicity_analysis |-> toxicity_results,
              bias_patterns |-> found,
              hate_speech_analysis |-> hate_speech_results,
              linguistic_analysis |-> linguistic_analysis,
              overall_assessment |-> overall_assessment,
              recommendations |-> _generate_recommendations(overall_assessment)]

NoBias ==
    [called |-> FALSE, text |-> <<>>,
     env |-> [models |-> TRUE, lang |-> "en",
              predict |-> [raises |-> FALSE, toxicity |-> 5, insult |-> 5],
              classifier |-> [raises |-> FALSE, empty |-> TRUE, label |-> None,
                              score |-> 0],
              nlp_raises |-> FALSE],
     result |-> EmptyDict]

\* the call bias_service.analyze_bias_and_toxicity(text)
AnalyzeBiasAndToxicity ==
    /\ ~bias.called
    /\ bias' = [bias EXCEPT !.called = TRUE,
                            !.result = analyze_bias_and_toxicity(bias.text, bias.env)]
    /\ UNCHANGED <<chatVars, taskVars, call, emotion, extracting, humanize>>

(***************************************************************************)
(* EmotionDetectionService.analyze_text_emotion                            *)
(* (emotion_detection_service.py). Scores are percentages.                 *)
(***************************************************************************)
EmotionTexts ==
    { <<>>, <<Space>>, <<Space, Space>>, <<"happy">>, <<"sad", "!">>,
      <<Space, "happy", Space, "project", "!", Space>> }

\* str.lower() on the labels a classifier emits
Lower(label) ==
    CASE label = "LABEL_1" -> "label_1"
      [] label = "Joy" -> "joy"
      [] OTHER -> label

\* text.strip() and ' '.join(text.split()): words are one space apart
_preprocess_text(text) == SelectSeq(text, NonSpace)

\* what the libraries do in one call: the emotion pipeline (a list of
\* predictions), VADER, TextBlob and spaCy
EmotionClassifierOutcomes ==
    {[raises |-> TRUE, predictions |-> <<>>],
     [raises |-> FALSE, predictions |-> <<>>],
     [raises |-> FALSE, predictions |-> <<[label |-> "Joy", score |-> 90]>>],
     [raises |-> FALSE, predictions |-> <<[label |-> "sadness", score |-> 60],
                                          [label |-> "LABEL_1", score |-> 30]>>]}

VaderOutcomes ==
    {[raises |-> TRUE, compound |-> 0]} \cup
    {[raises |-> FALSE, compound |-> c] : c \in {-80, -30, 0, 30, 80}}

\* the models are loaded: _initialize_models re-raises, so that no service
\* object exists without them
EmotionEnvs ==
    [classifier : EmotionClassifierOutcomes, vader : VaderOutcomes,
     textblob_raises : BOOLEAN, nlp_raises : BOOLEAN]

Abs(x) == IF x < 0 THEN -x ELSE x

_extract_linguistic_features(text) ==
    LET excl == Len(SelectSeq(text, LAMBDA w : w = "!"))
        quest == Len(SelectSeq(text, LAMBDA w : w = "?"))
    IN  [word_count |-> Len(text),
         exclamation_count |-> excl,
         question_count |-> quest,
         emotional_punctuation |-> excl + quest]

_calculate_emotion_intensity(primary_emotion, vader_scores) ==
    Min((primary_emotion.score + Abs(vader_scores.compound)) \div 2, 100)

_determine_emotional_state(primary_emotion, vader_scores) ==
    LET compound == vader_scores.compound
    IN  IF compound > 50 THEN "very_positive"
        ELSE IF compound > 10 THEN "positive"
        ELSE IF compound < -50 THEN "very_negative"
        ELSE IF compound < -10 THEN "negative"
        ELSE "neutral"

\* an empty result that leaves out the emotional state
_empty_emotion_result_NoState(error) ==
    LET result ==
            [timestamp |-> "now",
             primary_emotion |-> [emotion |-> "neutral", confidence |-> 0],
             sentiment |-> [vader |-> [compound |-> 0, positive |-> 0,
                                       neutral |-> 100, negative |-> 0],
                            textblob |-> [polarity |-> 0, subjectivity |-> 0]],
             emotion_intensity |-> 0]
    IN  IF error # None THEN result @@ [error |-> error] ELSE result

_empty_emotion_result(error) ==
    LET result ==
            [timestamp |-> "now",
             primary_emotion |-> [emotion |-> "neutral", confidence |-> 0],
             sentiment |-> [vader |-> [compound |-> 0, positive |-> 0,
                                       neutral |-> 100, negative |-> 0],
                            textblob |-> [polarity |-> 0, subjectivity |-> 0]],
             emotion_intensity |-> 0,
             emotional_state |-> "neutral"]
    IN  IF error # None THEN result @@ [error |-> error] ELSE result

analyze_text_emotion(text, env) ==
    IF text = <<>> \/ IsBlank(text) THEN _empty_emotion_result(None)
    \* self.nlp(text) in _preprocess_text or _extract_linguistic_features
    ELSE IF env.nlp_raises THEN _empty_emotion_result("Exception")
    ELSE IF env.classifier.raises THEN _empty_emotion_result("Exception")
    ELSE IF env.vader.raises THEN _empty_emotion_result("Exception")
    ELSE IF env.textblob_raises THEN _empty_emotion_result("Exception")
    \* primary_emotions[0] of an empty list
    ELSE IF env.classifier.predictions = <<>> THEN _empty_emotion_result("IndexError")
    ELSE LET cleaned_text == _preprocess_text(text)
             primary_emotions == env.classifier.predictions
             vader_scores == env.vader
         IN  [timestamp |-> "now",
              input_text |-> text,
              primary_emotion |->
                  [emotion |-> Lower(primary_emotions[1].label),
                   confidence |-> primary_emotions[1].score,
                   all_emotions |->
                       [i \in 1..Len(primary_emotions) |->
                           [emotion |-> Lower(primary_emotions[i].label),
                            confidence |-> primary_emotions[i].score]]],
              sentiment |-> [vader |-> [compound |-> vader_scores.compound],
                             textblob |-> [polarity |-> 0, subjectivity |-> 0]],
              linguistic_features |-> _extract_linguistic_features(cleaned_text),
              emotion_intensity |->
                  _calculate_emotion_intensity(primary_emotions[1], vader_scores),
              emotional_state |->
                  _determine_emotional_state(primary_emotions[1], vader_scores)]

NoEmotion ==
    [called |-> FALSE, text |-> <<>>,
     env |-> [classifier |-> [raises |-> FALSE, predictions |-> <<>>],
              vader |-> [raises |-> FALSE, compound |-> 0],
              textblob_raises |-> FALSE, nlp_raises |-> FALSE],
     result |-> EmptyDict]

\* the call emotion_service.analyze_text_emotion(text)
AnalyzeTextEmotion ==
    /\ ~emotion.called
    /\ emotion' = [emotion EXCEPT !.called = TRUE,
                                  !.result = analyze_text_emotion(emotion.text,
                                                                  emotion.env)]
    /\ UNCHANGED <<chatVars, taskVars, call, bias, extracting, humanize>>

(***************************************************************************)
(* SpecChat: the chat endpoints serving requests one after the other.      *)
(***************************************************************************)
NoResponse ==
    [endpoint |-> None, user_id |-> None, message |-> <<>>, ollama |-> <<>>,
     upstream |-> <<>>, insert_ok |-> TRUE, reads_ok |-> TRUE, consumed |-> 0,
     status |-> 0,
     detail |-> None,
     body |-> <<>>, steps |-> <<>>, attempts |-> 0, sleeps |-> <<>>,
     events |-> <<>>, prompt |-> [raised |-> "NoPrompt"], inserted |-> 0]

IdleTasks ==
    /\ broker = <<>>
    /\ unacked = {}
    /\ worker = [app |-> "tasks", up |-> TRUE, running |-> 0, pc |-> "idle",
                 crashes |-> 0]
    /\ backend = [id \in TaskIds |-> [state |-> "PENDING", result |-> NoResult]]
    /\ runs = [id \in TaskIds |-> 0]
    /\ submitted = <<>>
    /\ poll = NoPoll
    /\ services = [s \in {"emotion_service", "bias_service"} |-> TRUE]

InitChat ==
    /\ users \in {t \in [Users -> UserRows] : t["u2"] = NoRow}
    /\ user_personal_details = <<>>
    \* the client application writes the user's own messages
    /\ chat_messages = <<[user_id |-> "u1", content |-> <<"cats">>, author_id |-> "u1"]>>
    /\ ollama_url \in {None, "http://localhost:11434/api/generate"}
    /\ nreq = 0
    /\ resp = NoResponse
    /\ IdleTasks
    /\ call = NoCall
    /\ bias = NoBias
    /\ emotion = NoEmotion
    /\ extracting = NoExtract
    /\ humanize = NoHumanize

NextChat == ChatEndpoint \/ ChatStreamEndpoint

SpecChat == InitChat /\ [][NextChat]_vars

InitDetails ==
    /\ users = [u \in Users |-> NoRow]
    /\ user_personal_details = <<>>
    /\ chat_messages = <<>>
    /\ ollama_url = None
    /\ nreq = 0
    /\ resp = NoResponse
    /\ IdleTasks
    /\ call = NoCall
    /\ bias = NoBias
    /\ emotion = NoEmotion
    /\ extracting = NoExtract
    /\ humanize = NoHumanize

NextDetails == ExtractPersonalDetails

SpecDetails == InitDetails /\ [][NextDetails]_vars

(***************************************************************************)
(* SpecTasks: clients submitting and polling tasks, one worker.            *)
(***************************************************************************)
InitTasks ==
    /\ users = [u \in Users |-> NoRow]
    /\ user_personal_details = <<>>
    /\ chat_messages = <<>>
    /\ ollama_url = None
    /\ nreq = 0
    /\ resp = NoResponse
    /\ broker = <<>>
    /\ unacked = {}
    /\ worker \in {[app |-> app, up |-> TRUE, running |-> 0, pc |-> "idle",
                     crashes |-> 0] : app \in WorkerApps}
    /\ backend = [id \in TaskIds |-> [state |-> "PENDING", result |-> NoResult]]
    /\ runs = [id \in TaskIds |-> 0]
    /\ submitted = <<>>
    /\ poll = NoPoll
    /\ services \in [{"emotion_service", "bias_service"} -> BOOLEAN]
    /\ call = NoCall
    /\ bias = NoBias
    /\ emotion = NoEmotion
    /\ extracting = NoExtract
    /\ humanize = NoHumanize

NextTasks ==
    \/ SubmitTask
    \/ PollResult
    \/ PollStatus
    \/ WorkerReceive
    \/ TaskStarted
    \/ TaskProgress
    \/ TaskFinish
    \/ WorkerAck
    \/ WorkerCrash
    \/ WorkerRestart
    \/ Redeliver

SpecTasks == InitTasks /\ [][NextTasks]_vars

\* a worker that is up keeps working, a dead worker is started again and the
\* broker redelivers what was never acknowledged
FairSpecTasks ==
    /\ SpecTasks
    /\ WF_vars(WorkerReceive)
    /\ WF_vars(TaskStarted)
    /\ WF_vars(TaskProgress)
    /\ WF_vars(TaskFinish)
    /\ WF_vars(WorkerAck)
    /\ WF_vars(WorkerRestart)
    /\ WF_vars(Redeliver)

(***************************************************************************)
(* SpecBias: calls of analyze_bias_and_toxicity.                           *)
(***************************************************************************)
InitBias ==
    /\ users = [u \in Users |-> NoRow]
    /\ user_personal_details = <<>>
    /\ chat_messages = <<>>
    /\ ollama_url = None
    /\ nreq = 0
    /\ resp = NoResponse
    /\ IdleTasks
    /\ call = NoCall
    /\ bias \in {[called |-> FALSE, text |-> text, env |-> env, result |-> EmptyDict] :
                   text \in BiasTexts, env \in BiasEnvs}
    /\ emotion = NoEmotion
    /\ extracting = NoExtract
    /\ humanize = NoHumanize

NextBias == AnalyzeBiasAndToxicity

SpecBias == InitBias /\ [][NextBias]_vars

(***************************************************************************)
(* SpecEmotion: calls of analyze_text_emotion.                             *)
(***************************************************************************)
InitEmotion ==
    /\ users = [u \in Users |-> NoRow]
    /\ user_personal_details = <<>>
    /\ chat_messages = <<>>
    /\ ollama_url = None
    /\ nreq = 0
    /\ resp = NoResponse
    /\ IdleTasks
    /\ call = NoCall
    /\ bias = NoBias
    /\ emotion \in {[called |-> FALSE, text |-> text, env |-> env,
                      result |-> EmptyDict] :
                      text \in EmotionTexts, env \in EmotionEnvs}
    /\ extracting = NoExtract
    /\ humanize = NoHumanize

NextEmotion == AnalyzeTextEmotion

SpecEmotion == InitEmotion /\ [][NextEmotion]_vars

(***************************************************************************)
(* SpecConcurrent: two server processes, each handling one request that    *)
(* calls extract_personal_details; the table is empty or holds the row an  *)
(* earlier call has stored.                                                *)
(***************************************************************************)
InitConcurrent ==
    /\ users = [u \in Users |-> NoRow]
    /\ user_personal_details \in
           {<<>>, StoreDetails(<<>>, "u1", <<"i want to", "cats">>, TRUE, 0)}
    /\ chat_messages = <<>>
    /\ ollama_url = None
    /\ nreq = 0
    /\ resp = NoResponse
    /\ IdleTasks
    /\ call = NoCall
    /\ bias = NoBias
    /\ emotion = NoEmotion
    /\ extracting = NoExtract
    /\ humanize = NoHumanize

NextConcurrent == \E p \in Processes : ExtractSelect(p) \/ ExtractWrite(p)

SpecConcurrent == InitConcurrent /\ [][NextConcurrent]_vars

(***************************************************************************)
(* SpecHumanize: one call of humanize_response for every choice of its     *)
(* arguments.                                                              *)
(***************************************************************************)
InitHumanize ==
    /\ users = [u \in Users |-> NoRow]
    /\ user_personal_details = <<>>
    /\ chat_messages = <<>>
    /\ ollama_url = None
    /\ nreq = 0
    /\ resp = NoResponse
    /\ IdleTasks
    /\ call = NoCall
    /\ bias = NoBias
    /\ emotion = NoEmotion
    /\ extracting = NoExtract
    /\ humanize \in {[NoHumanize EXCEPT !.ai_response = ai_response,
                                        !.user_name = user_name,
                                        !.user_message = user_message] :
                         ai_response \in AiResponses, user_name \in UserNames,
                         user_message \in HumanizeMessages}

NextHumanize == HumanizeResponse

SpecHumanize == InitHumanize /\ [][NextHumanize]_vars

(***************************************************************************)
(* Claims about the chat endpoints (SpecChat).                             *)
(***************************************************************************)
\* number of attempts that fail with a timeout or a connection error before
\* the first attempt that ends otherwise
RECURSIVE LeadingFailures(_)
LeadingFailures(oracle) ==
    IF oracle = <<>> \/ Head(oracle) \notin Retried THEN 0
    ELSE 1 + LeadingFailures(Tail(oracle))

Backoff == <<5, 10>>

\* C1: in POST /chat an Ollama request that fails with a timeout or a
\* connection error is retried with exponential backoff: a request whose
\* first k attempts fail makes min(3, k + 1) attempts, waits 5 s before the
\* second and 10 s before the third, and does not wait after the third.
C1_RetriedWithBackoff ==
    (resp.endpoint = "/chat" /\ ollama_url # None /\ LeadingFailures(resp.ollama) >= 1)
        => /\ resp.attempts = Min(max_retries, LeadingFailures(resp.ollama) + 1)
           /\ resp.sleeps = SubSeq(Backoff, 1, resp.attempts - 1)

\* C2: in POST /chat, when the third consecutive Ollama attempt also fails
\* with a timeout or a connection error, the client receives HTTP 503 with
\* the 'taking too long to respond' / 'Cannot connect to Ollama service'
\* detail and no chat_messages row is inserted.
C2_ThirdFailureIs503 ==
    (resp.endpoint = "/chat" /\ ollama_url # None /\ LeadingFailures(resp.ollama) = max_retries)
        => /\ resp.status = 503
           /\ resp.detail \in {"taking too long to respond", "Cannot connect to Ollama service"}
           /\ resp.inserted = 0

\* C3: every POST /chat request, with OLLAMA_API_URL configured, fetches the
\* user row, builds the prompt from the user's message and the fetched row,
\* and then posts it to Ollama: at least one Ollama request is made before
\* any response is returned, whatever the user row contains.
C3_PipelineReachesOllama ==
    (resp.endpoint = "/chat" /\ ollama_url # None)
        => /\ resp.steps = Append(PipelineSteps, "ollama_post")
           /\ resp.prompt.raised = None
           /\ resp.prompt.user_message = resp.message
           /\ resp.attempts >= 1

\* C4: in POST /chat, if the insert into chat_messages fails after Ollama
\* answered successfully, the request still succeeds and returns the
\* humanized text; nothing is persisted for the request.
C4_InsertFailureStillAnswers ==
    (/\ resp.endpoint = "/chat"
     /\ ollama_url # None
     /\ resp.ollama[LeadingFailures(resp.ollama) + 1] = "ok"
     /\ ~resp.insert_ok)
        => /\ resp.status = 200
           /\ resp.body # <<>>
           /\ resp.inserted = 0

\* C5: chat_messages is append-only for the backend: a request leaves the
\* existing rows as they are and inserts at most one row, whose author_id is
\* "ai" and whose user_id is that of the requesting user.
C5_AppendOnly ==
    [][\/ chat_messages' = chat_messages
       \/ /\ Len(chat_messages') = Len(chat_messages) + 1
          /\ SubSeq(chat_messages', 1, Len(chat_messages)) = chat_messages
          /\ chat_messages'[Len(chat_messages')].author_id = "ai"
          /\ chat_messages'[Len(chat_messages')].user_id = resp'.user_id]_vars

\* C6: in POST /chat/stream, for a message that is not a simple greeting and
\* an Ollama stream that completes normally, the texts of the 'text' events,
\* concatenated in emission order, equal the complete response of Ollama.
C6_TextEventsCarryResponse ==
    (/\ resp.endpoint = "/chat/stream"
     /\ ollama_url # None
     /\ ~IsSimpleGreeting(resp.message)
     /\ resp.ollama = <<"ok">>)
        => EventText(resp.events) = UpstreamText(resp.upstream)

(***************************************************************************)
(* Claims about extract_personal_details (SpecDetails).                    *)
(***************************************************************************)
IsPrefix(s, t) == Len(s) <= Len(t) /\ SubSeq(t, 1, Len(s)) = s

\* s without the repetitions of its elements, first occurrences kept
RECURSIVE Dedup(_)
Dedup(s) ==
    IF s = <<>> THEN <<>>
    ELSE LET front == Dedup(SubSeq(s, 1, Len(s) - 1))
         IN  IF InSeq(s[Len(s)], front) THEN front ELSE Append(front, s[Len(s)])

\* the phrases of `values` that `stored` does not hold, in extraction order
Fresh(stored, values) ==
    LET IsNew(x) == ~InSeq(x, stored) IN Dedup(SelectSeq(values, IsNew))

C22_Idempotent ==
    (call.n >= 1 /\ call.db_ok) =>
        \A first \in FirstRows(user_personal_details, call.user_id) :
            StoreExtracted(user_personal_details, call.user_id, call.details,
                           TRUE, first) = user_personal_details

\* a call that merged new phrases into the row an earlier call had created
C22_Witness ==
    /\ call.n >= 2
    /\ call.db_ok
    /\ \E i \in 1..Len(user_personal_details) : \E c \in DOMAIN call.details :
          LET list == user_personal_details[i].lists[c]
          IN  /\ user_personal_details[i].user_id = call.user_id
              /\ Len(list) > Len(call.details[c])
              /\ \A k \in 1..Len(call.details[c]) : InSeq(call.details[c][k], list)

\* C23: only unique values are stored: starting from no row, after any
\* sequence of extract_personal_details calls no category list of a row
\* holds the same phrase twice.
C23_UniqueValues ==
    \A i \in 1..Len(user_personal_details) : \A c \in Categories :
        Dedup(user_personal_details[i].lists[c]) = user_personal_details[i].lists[c]

\* C12: when the users row that /chat/stream fetched has a non-blank name, the
\* prompt posted to Ollama names the user by it; the fallback "your current
\* self" stands in only for a missing or blank name.
C12_PromptNamesUser ==
    (/\ resp.endpoint = "/chat/stream"
     /\ InSeq("ollama_post", resp.steps)
     /\ resp.reads_ok
     /\ users[resp.user_id] # NoRow) =>
        LET name == users[resp.user_id][1].name
        IN  resp.prompt.name_part = IF Truthy(name) THEN name ELSE "your current self"

\* C13: the handlers never look at the client connection: a /chat/stream
\* request whose upstream request succeeded reads the upstream stream to its
\* end, and a /chat request that met a timeout or a connection error goes on
\* to the next attempt until an attempt succeeds or the third one failed.
C13_RunsToCompletion ==
    /\ (resp.endpoint = "/chat/stream" /\ resp.upstream # <<>>
            /\ InSeq("ollama_post", resp.steps)) =>
          resp.consumed = Len(resp.upstream)
    /\ (resp.endpoint = "/chat" /\ resp.attempts >= 1) =>
          resp.attempts = Min(LeadingFailures(resp.ollama) + 1, max_retries)

\* C14: a /chat/stream request whose Ollama request fails (timeout,
\* connection error or HTTP error status) makes that one request only and
\* answers with the typing event followed by exactly one error event: no
\* text event, no done event, and chat_messages is left as it was.
C14_StreamFailure ==
    [][(/\ nreq' = nreq + 1
        /\ resp'.endpoint = "/chat/stream"
        /\ InSeq("ollama_post", resp'.steps)
        /\ resp'.ollama[1] # "ok") =>
           /\ resp'.attempts = 1
           /\ Len(resp'.events) = 2
           /\ resp'.events[1].kind = "typing"
           /\ resp'.events[2].kind = "error"
           /\ resp'.inserted = 0
           /\ chat_messages' = chat_messages]_vars

\* a stream request was answered after Ollama returned an HTTP error status
C14_Witness ==
    /\ resp.endpoint = "/chat/stream"
    /\ resp.ollama = <<"http_error">>
    /\ resp.attempts = 1
    /\ Len(resp.events) = 2
    /\ resp.events[2].kind = "error"

\* the events that carry 'done': true
DoneKinds == {"done", "text_done"}

\* C15: the events of a /chat/stream response start with the typing event;
\* when Ollama streamed to completion exactly one event carries 'done': true
\* and it is the last one; no text event follows an event with 'done': true.
C15_EventProtocol ==
    (resp.endpoint = "/chat/stream" /\ InSeq("ollama_post", resp.steps)) =>
        LET events == resp.events
            n == Len(events)
        IN  /\ n >= 1
            /\ events[1].kind = "typing"
            /\ resp.ollama[1] = "ok" =>
                  /\ events[n].kind \in DoneKinds
                  /\ \A i \in 1..(n - 1) : events[i].kind \notin DoneKinds
            /\ \A i \in 1..n : \A j \in (i + 1)..n :
                  events[i].kind \in DoneKinds =>
                      events[j].kind \notin {"text", "text_done"}

\* C16: in POST /chat a failure of the Ollama request other than a timeout
\* or a connection error (an HTTP error status) is not retried: the request
\* ends with HTTP 503 after exactly one attempt and without a backoff sleep.
C16_OtherFailureNotRetried ==
    (resp.endpoint = "/chat" /\ ollama_url # None /\ resp.ollama[1] = "http_error")
        => /\ resp.status = 503
           /\ resp.attempts = 1
           /\ resp.sleeps = <<>>

\* C21: in POST /chat/stream with an upstream stream that completes, the
\* content stored in chat_messages for the request equals the text of the
\* 'text' events the client received, for greetings and other messages.
C21_StoredEqualsStreamed ==
    (/\ resp.endpoint = "/chat/stream"
     /\ InSeq("ollama_post", resp.steps)
     /\ resp.ollama = <<"ok">>
     /\ resp.insert_ok) =>
        /\ resp.inserted = 1
        /\ chat_messages # <<>>
        /\ chat_messages[Len(chat_messages)].content = EventText(resp.events)

(***************************************************************************)
(* Claims about the Celery tasks (SpecTasks).                              *)
(***************************************************************************)
\* C7: a GET /<kind>/result/{task_id} answers 202 "Task is still processing"
\* while the task is PENDING, STARTED or PROGRESS, answers 500 "Task failed"
\* once the task is in FAILURE, and carries a result payload exactly when the
\* task is in SUCCESS, which an execution of the body has stored.
C7_ResultPolling ==
    [][(poll' # poll /\ poll'.endpoint = "result") =>
           LET state == backend[poll'.task_id].state
           IN  /\ state \in {"PENDING", "STARTED", "PROGRESS"} =>
                     /\ poll'.code = 202
                     /\ poll'.detail = "Task is still processing"
               /\ state = "FAILURE" =>
                     /\ poll'.code = 500
                     /\ poll'.detail = "Task failed"
               /\ poll'.body # NoBody <=> state = "SUCCESS"
               /\ poll'.code = 200 <=> state = "SUCCESS"
               /\ state = "SUCCESS" =>
                     /\ runs[poll'.task_id] >= 1
                     /\ poll'.body.kind = submitted[poll'.task_id].kind]_vars

\* a task that reports the custom state PROGRESS was polled for its result
C7_Witness ==
    /\ poll.endpoint = "result"
    /\ poll.task_id <= Len(submitted)
    /\ backend[poll.task_id].state = "PROGRESS"
    /\ poll.code = 202

\* a message is acknowledged once it is neither queued nor held unacknowledged
Acked(id) ==
    /\ id <= Len(submitted)
    /\ id \notin unacked
    /\ \A i \in 1..Len(broker) : broker[i] # id

\* C8: a task message is acknowledged to the broker only after an execution
\* of the task body has finished.
C8_AckedAfterBody == \A id \in TaskIds : Acked(id) => runs[id] >= 1

\* C8, liveness: every submitted task is eventually executed to completion,
\* given that the worker stays up in the end.
C8_EventuallyExecuted ==
    \A id \in TaskIds : (id <= Len(submitted)) ~> (runs[id] >= 1)

C18_EmotionTaskArguments ==
    \A id \in 1..Len(submitted) :
        (/\ submitted[id].kind = "analyze-emotion"
         /\ backend[id].state = "SUCCESS"
         /\ ~backend[id].result.error) =>
            /\ backend[id].result.user_id = submitted[id].request.user_id
            /\ backend[id].result.voice_emotions =>
                   Truthy(submitted[id].request.audio_file)

\* C19: a task whose body raised ends in FAILURE and its /result endpoint
\* answers 500: no /result endpoint answers 200 with a payload for a task
\* whose body failed.
C19_FailedBodyIsFailure ==
    /\ \A id \in TaskIds :
          backend[id].result.error => backend[id].state = "FAILURE"
    /\ (poll.endpoint = "result" /\ poll.code = 200) => poll.body.payload = "result"

\* C20: the state that GET /transcribe/status/{task_id} reports only moves
\* forward: after a poll that reported SUCCESS or FAILURE the next poll of
\* the same task reports SUCCESS or FAILURE too.
C20_StatusMovesForward ==
    [][(/\ poll.endpoint = "status"
        /\ poll.kind = "transcribe"
        /\ poll.state \in {"SUCCESS", "FAILURE"}
        /\ poll'.endpoint = "status"
        /\ poll'.task_id = poll.task_id) =>
           poll'.state \in {"SUCCESS", "FAILURE"}]_vars

(***************************************************************************)
(* Claims about concurrent calls of extract_personal_details               *)
(* (SpecConcurrent).                                                       *)
(***************************************************************************)
\* the phrases of category c stored in the rows of user_id
StoredPhrases(user_id, c) ==
    UNION {{user_personal_details[i].lists[c][k] :
               k \in 1..Len(user_personal_details[i].lists[c])} :
           i \in RowsOf(user_personal_details, user_id)}

\* C24: no update of personal details is lost: when two requests of one user
\* have run extract_personal_details concurrently, the user has at most one
\* row and the stored lists hold the phrases extracted by both requests.
C24_NoLostUpdate ==
    \A p, q \in Processes :
        (/\ p # q
         /\ extracting[p].pc = "done" /\ extracting[q].pc = "done"
         /\ extracting[p].db_ok /\ extracting[q].db_ok
         /\ extracting[p].user_id = extracting[q].user_id
         /\ DOMAIN extracting[p].details # {}) =>
            /\ Cardinality(RowsOf(user_personal_details, extracting[p].user_id)) <= 1
            /\ \A c \in DOMAIN extracting[p].details :
                  \A k \in 1..Len(extracting[p].details[c]) :
                      extracting[p].details[c][k]
                          \in StoredPhrases(extracting[p].user_id, c)

(***************************************************************************)
(* Claims about humanize_response (SpecHumanize).                          *)
(***************************************************************************)
\* the five canned greeting replies, each alone or followed by one emoji
CannedReplies(user_name) ==
    {reply \o emoji :
        reply \in {<<"Hey! How's it going?">>, <<"Hi there! What's up?">>,
                   <<"Hey ", user_name, "! How are you today?">>,
                   <<"Hi! What's new?">>, <<"Hey! Good to hear from you!">>},
        emoji \in {<<>>, <<"wave">>, <<"smile">>, <<"thumbs_up">>, <<"victory">>,
                   <<"slight_smile">>}}

\* what humanize_response can return for its arguments, over the random choices
Outputs(ai_response, user_name, user_message) ==
    {humanize_response(ai_response, user_name, user_message, pick) : pick \in Picks}

\* C25: for a user message that is a simple greeting humanize_response
\* returns one of the five canned replies, optionally followed by one emoji,
\* and the outputs it can return are the same for every ai_response.
C25_GreetingReply ==
    (humanize.called /\ IsSimpleGreeting(humanize.user_message)) =>
        /\ humanize.result \in CannedReplies(humanize.user_name)
        /\ \A ai_response \in AiResponses :
              Outputs(ai_response, humanize.user_name, humanize.user_message)
                  = Outputs(humanize.ai_response, humanize.user_name,
                            humanize.user_message)

\* a greeting in capitals and white space answered by a canned reply with an emoji
C25_Witness ==
    /\ humanize.called
    /\ humanize.user_message = <<Space, "HI", Space>>
    /\ Len(humanize.result) = 2
    /\ humanize.ai_response = <<"a", "B">>

(***************************************************************************)
(* Claims about the bias analysis (SpecBias).                              *)
(***************************************************************************)
\* C10: whatever the text and whatever the models do, the dictionary that
\* analyze_bias_and_toxicity returns has the keys 'language',
\* 'toxicity_analysis', 'bias_patterns' and 'overall_assessment', and its
\* 'toxicity_analysis' has 'overall_toxicity' and 'toxicity_level'.
C10_ResultFields ==
    bias.called =>
        /\ {"language", "toxicity_analysis", "bias_patterns",
            "overall_assessment"} \subseteq DOMAIN bias.result
        /\ {"overall_toxicity", "toxicity_level"}
               \subseteq DOMAIN bias.result["toxicity_analysis"]

(***************************************************************************)
(* Claims about the emotion detection (SpecEmotion).                       *)
(***************************************************************************)
\* the call took the empty path or the error path of analyze_text_emotion
EmotionFallback ==
    \/ IsBlank(emotion.text)
    \/ emotion.env.nlp_raises
    \/ emotion.env.classifier.raises
    \/ emotion.env.classifier.predictions = <<>>
    \/ emotion.env.vader.raises
    \/ emotion.env.textblob_raises

\* C11: whatever the text and whatever the models do, the dictionary that
\* analyze_text_emotion returns has primary_emotion.emotion,
\* primary_emotion.confidence, emotional_state and sentiment.vader.compound;
\* for blank text and when a model call raises they are 'neutral', 0,
\* 'neutral' and 0.
C11_EmotionFields ==
    emotion.called =>
        /\ {"primary_emotion", "emotional_state", "sentiment"}
               \subseteq DOMAIN emotion.result
        /\ {"emotion", "confidence"} \subseteq DOMAIN emotion.result["primary_emotion"]
        /\ "vader" \in DOMAIN emotion.result["sentiment"]
        /\ "compound" \in DOMAIN emotion.result["sentiment"]["vader"]
        /\ EmotionFallback =>
              /\ emotion.result["primary_emotion"]["emotion"] = "neutral"
              /\ emotion.result["primary_emotion"]["confidence"] = 0
              /\ emotion.result["emotional_state"] = "neutral"
              /\ emotion.result["sentiment"]["vader"]["compound"] = 0

\* a call on a non-blank text during which the classifier raised
C11_Witness ==
    /\ emotion.called
    /\ ~IsBlank(emotion.text)
    /\ emotion.env.classifier.raises
    /\ "error" \in DOMAIN emotion.result

====
